---- MODULE Spec2Model ----
(***************************************************************************)
(* Model of the tabular transformation operations of src/src/operations.py *)
(* (RemoveDuplicates, FilterRows, ReplaceValues, MergeColumns,             *)
(* NormalizeText, ConvertDateFormat) as they act on pandas DataFrames.     *)
(*                                                                         *)
(* DataFrames are objects in a heap (so that aliasing and in-place writes  *)
(* are visible), operation instances are records of their attributes, and  *)
(* the caller loads a table, constructs an operation, applies it, and may  *)
(* apply it once more to the table it got back.                            *)
(***************************************************************************)
EXTENDS Integers, Sequences, FiniteSets, TLC

\* Largest number of rows of a loaded table.
MaxRows == 3

(***************************************************************************)
(* Cell values: Python ints and strs.  A str is a sequence of characters.  *)
(***************************************************************************)
I(n) == [k |-> "int", n |-> n, s |-> <<>>]
S(s) == [k |-> "str", n |-> 0, s |-> s]

\* The missing value (float nan); it arises only in the column that
\* ConvertDateFormat writes.
NaN == [k |-> "nan", n |-> 0, s |-> <<>>]

Digits == <<"0", "1", "2", "3", "4", "5", "6", "7", "8", "9">>

DigitVal(c) == CHOOSE d \in 0..9 : Digits[d + 1] = c

IsDigit(c) == \E d \in 1..10 : Digits[d] = c

RECURSIVE StrOfNat(_)
StrOfNat(n) ==
    IF n < 10 THEN <<Digits[n + 1]>>
    ELSE StrOfNat(n \div 10) \o <<Digits[(n % 10) + 1]>>

\* str(x) / Series.astype(str): the textual form of a cell.
str(v) == IF v.k = "int" THEN StrOfNat(v.n) ELSE v.s

\* Code points of the characters the model uses (ordering of strs).
Ord(c) ==
    CASE c = " " -> 32 [] c = "-" -> 45 [] c = "." -> 46 [] c = "/" -> 47
      [] IsDigit(c) -> 48 + DigitVal(c)
      [] c = "A" -> 65 [] c = "B" -> 66
      [] c = "a" -> 97 [] c = "b" -> 98
      [] OTHER -> 127

RECURSIVE StrLess(_, _)
StrLess(s, t) ==
    IF t = <<>> THEN FALSE
    ELSE IF s = <<>> THEN TRUE
    ELSE IF Ord(s[1]) # Ord(t[1]) THEN Ord(s[1]) < Ord(t[1])
    ELSE StrLess(Tail(s), Tail(t))

\* Python's x == y on cell values.
ValEq(x, y) == x = y

\* Whether Python can order x against y (int with int, str with str).
Comparable(x, y) == x.k = y.k

\* Python's x < y on order-comparable values.
ValLess(x, y) == IF x.k = "int" THEN x.n < y.n ELSE StrLess(x.s, y.s)

(***************************************************************************)
(* DataFrames.  Rows carry their index label; a row's cells are a function *)
(* from the column names.                                                  *)
(***************************************************************************)
Range(s) == {s[i] : i \in 1..Len(s)}

SelectIdx(s, keep) ==
    LET F[i \in 0..Len(s)] ==
            IF i = 0 THEN <<>>
            ELSE IF i \in keep THEN Append(F[i - 1], s[i]) ELSE F[i - 1]
    IN  F[Len(s)]

HasColumn(t, c) == c \in Range(t.columns)

\* DataFrame.empty: some axis has length 0.
IsEmpty(t) == Len(t.rows) = 0 \/ Len(t.columns) = 0

\* df[col]: the column as a sequence of values.
Column(t, c) == [i \in 1..Len(t.rows) |-> t.rows[i].cells[c]]

\* df[mask]: the rows at the positions in keep, index labels kept.
Take(t, keep) == [columns |-> t.columns, rows |-> SelectIdx(t.rows, keep)]

\* df[col] = values: overwrite the column, or append it when absent.
SetColumn(t, c, vals) ==
    [columns |-> IF HasColumn(t, c) THEN t.columns ELSE Append(t.columns, c),
     rows |-> [i \in 1..Len(t.rows) |->
                 [index |-> t.rows[i].index,
                  cells |-> [x \in Range(t.columns) \cup {c} |->
                               IF x = c THEN vals[i] ELSE t.rows[i].cells[x]]]]]

(***************************************************************************)
(* The heap of DataFrame objects: a function from object ids to tables.    *)
(***************************************************************************)
NextId(h) == CHOOSE i \in 1..(Cardinality(DOMAIN h) + 1) : i \notin DOMAIN h

Alloc(h, t) == LET id == NextId(h) IN [heap |-> (id :> t) @@ h, ref |-> id]

Store(h, ref, t) == [h EXCEPT ![ref] = t]

Restrict(h, live) == [id \in (DOMAIN h) \cap live |-> h[id]]

\* The object a call hands back, or the exception it raises.
NoRet == [ok |-> FALSE, ref |-> 0, msg |-> "", cause |-> ""]
Ok(ref) == [ok |-> TRUE, ref |-> ref, msg |-> "", cause |-> ""]
Raise(msg, cause) == [ok |-> FALSE, ref |-> 0, msg |-> msg, cause |-> cause]

\* A forgotten copy: the "copy" is the caller's own object.
DfCopyAlias(h, df) == [heap |-> h, ref |-> df]

\* df.copy(): a new object holding the same rows and columns.
DfCopy(h, df) == Alloc(h, h[df])

(***************************************************************************)
(* RemoveDuplicates                                                        *)
(***************************************************************************)
NoneColumns == [isNone |-> TRUE, names |-> <<>>]
Columns(names) == [isNone |-> FALSE, names |-> names]

RemoveDuplicates__init__(columns, keep) ==
    [ok |-> TRUE,
     self |-> [cls |-> "RemoveDuplicates", columns |-> columns, keep |-> keep]]

Key(t, cols, i) == [j \in 1..Len(cols) |-> t.rows[i].cells[cols[j]]]

\* keep='last' handled as keep='first'.
duplicatedFirstOnly(t, cols, keep, i) ==
    IF keep = "False"
    THEN \E j \in 1..Len(t.rows) : j # i /\ Key(t, cols, j) = Key(t, cols, i)
    ELSE \E j \in 1..(i - 1) : Key(t, cols, j) = Key(t, cols, i)

\* keep=False (falsy) handled as the default, keep='first'.
duplicatedFalseAsFirst(t, cols, keep, i) ==
    IF keep = "last"
    THEN \E j \in (i + 1)..Len(t.rows) : Key(t, cols, j) = Key(t, cols, i)
    ELSE \E j \in 1..(i - 1) : Key(t, cols, j) = Key(t, cols, i)

\* DataFrame.duplicated(subset, keep) at row position i.
duplicated(t, cols, keep, i) ==
    CASE keep = "first" ->
           \E j \in 1..(i - 1) : Key(t, cols, j) = Key(t, cols, i)
      [] keep = "last" ->
           \E j \in (i + 1)..Len(t.rows) : Key(t, cols, j) = Key(t, cols, i)
      [] OTHER ->
           \E j \in 1..Len(t.rows) : j # i /\ Key(t, cols, j) = Key(t, cols, i)

\* DataFrame.drop_duplicates(subset, keep): an empty frame is copied as it
\* is; otherwise the subset's columns must exist and keep must be 'first',
\* 'last' or False.
drop_duplicates(t, subset, keep) ==
    LET cols == IF subset.isNone THEN t.columns ELSE subset.names IN
    IF IsEmpty(t) THEN [ok |-> TRUE, table |-> t, cause |-> ""]
    ELSE IF \E c \in Range(cols) : ~HasColumn(t, c)
    THEN [ok |-> FALSE, table |-> t, cause |-> "KeyError"]
    ELSE IF keep \notin {"first", "last", "False"}
    THEN [ok |-> FALSE, table |-> t, cause |-> "keep must be either first, last or False"]
    ELSE [ok |-> TRUE,
          table |-> Take(t, {i \in 1..Len(t.rows) : ~duplicated(t, cols, keep, i)}),
          cause |-> ""]

RemoveDuplicates_apply(self, h, df) ==
    LET c == DfCopy(h, df)
        d == drop_duplicates(c.heap[c.ref], self.columns, self.keep)
        a == Alloc(c.heap, d.table)
    IN  IF d.ok
        THEN [heap |-> a.heap, self |-> self, ret |-> Ok(a.ref)]
        ELSE [heap |-> c.heap, self |-> self,
              ret |-> Raise("Remove duplicates failed", d.cause)]

(***************************************************************************)
(* FilterRows                                                              *)
(***************************************************************************)
valid_operators == <<"==", "!=", ">", "<", ">=", "<=", "contains", "in">>

\* The comparison value: a scalar, or a list of values (for 'in').
Scalar(v) == [coll |-> FALSE, items |-> <<v>>]
List(vs) == [coll |-> TRUE, items |-> vs]

NoOp == [cls |-> "None"]

\* A constructor without the membership test.
FilterRows__init__Unchecked(column, operator, value) ==
    [ok |-> TRUE,
     self |-> [cls |-> "FilterRows", column |-> column,
               operator |-> operator, value |-> value]]

FilterRows__init__(column, operator, value) ==
    IF operator \notin Range(valid_operators)
    THEN [ok |-> FALSE, self |-> NoOp]
    ELSE [ok |-> TRUE,
          self |-> [cls |-> "FilterRows", column |-> column,
                    operator |-> operator, value |-> value]]

\* re.search(pat, text) for patterns of literal characters and '.', which
\* stands for any one character (Series.str.contains has regex=True).
re_search(pat, text) ==
    \E i \in 1..(Len(text) + 1) :
        /\ i + Len(pat) - 1 <= Len(text)
        /\ \A j \in 1..Len(pat) : pat[j] = "." \/ pat[j] = text[i + j - 1]

\* The row test of each operator.
Predicate(operator, cell, value) ==
    LET v == value.items[1] IN
    CASE operator = "==" -> ValEq(cell, v)
      [] operator = "!=" -> ~ValEq(cell, v)
      [] operator = ">"  -> ValLess(v, cell)
      [] operator = "<"  -> ValLess(cell, v)
      [] operator = ">=" -> ~ValLess(cell, v)
      [] operator = "<=" -> ~ValLess(v, cell)
      [] operator = "contains" -> re_search(str(v), str(cell))
      [] operator = "in" -> cell \in Range(value.items)
      [] OTHER -> FALSE

Ordering == {">", "<", ">=", "<="}

\* An apply that keeps the stringified comparison value on the instance.
FilterRows_applyCaching(self, h, df) ==
    LET c == DfCopy(h, df)
        t == c.heap[c.ref]
        col == Column(t, self.column)
        me == IF self.operator = "contains"
              THEN [self EXCEPT !.value = Scalar(S(str(self.value.items[1])))]
              ELSE self
        fail(cause) == [heap |-> c.heap, self |-> me,
                        ret |-> Raise("Filter failed", cause)]
        res == Alloc(c.heap,
                     Take(t, {i \in 1..Len(t.rows) :
                                Predicate(self.operator, col[i], self.value)}))
    IN  IF self.operator \notin Range(valid_operators)
        THEN fail("Unknown operator")
        ELSE IF ~HasColumn(t, self.column) THEN fail("KeyError")
        ELSE IF /\ self.operator \in Ordering
                /\ \E i \in 1..Len(t.rows) :
                      ~Comparable(col[i], self.value.items[1])
        THEN fail("TypeError")
        ELSE IF self.operator = "in" /\ ~self.value.coll THEN fail("TypeError")
        ELSE [heap |-> res.heap, self |-> me, ret |-> Ok(res.ref)]

FilterRows_apply(self, h, df) ==
    LET c == DfCopy(h, df)
        t == c.heap[c.ref]
        col == Column(t, self.column)
        fail(cause) == [heap |-> c.heap, self |-> self,
                        ret |-> Raise("Filter failed", cause)]
        res == Alloc(c.heap,
                     Take(t, {i \in 1..Len(t.rows) :
                                Predicate(self.operator, col[i], self.value)}))
    IN  IF self.operator \notin Range(valid_operators)
        THEN fail("Unknown operator")
        ELSE IF ~HasColumn(t, self.column) THEN fail("KeyError")
        ELSE IF /\ self.operator \in Ordering
                /\ \E i \in 1..Len(t.rows) :
                      ~Comparable(col[i], self.value.items[1])
        THEN fail("TypeError")
        ELSE IF self.operator = "in" /\ ~self.value.coll THEN fail("TypeError")
        ELSE [heap |-> res.heap, self |-> self, ret |-> Ok(res.ref)]

(***************************************************************************)
(* ReplaceValues                                                           *)
(***************************************************************************)
ReplaceValues__init__(column, old_value, new_value) ==
    [ok |-> TRUE,
     self |-> [cls |-> "ReplaceValues", column |-> column,
               old_value |-> old_value, new_value |-> new_value]]

\* A replace that stops after the first matching cell.
replaceFirstOnly(col, old_value, new_value) ==
    [i \in 1..Len(col) |->
        IF ValEq(col[i], old_value) /\ \A j \in 1..(i - 1) : ~ValEq(col[j], old_value)
        THEN new_value ELSE col[i]]

\* Series.replace(old_value, new_value) for scalar arguments.
replace(col, old_value, new_value) ==
    [i \in 1..Len(col) |-> IF ValEq(col[i], old_value) THEN new_value ELSE col[i]]

\* df.replace(old, new) over the whole frame instead of the one column.
ReplaceValues_applyWholeFrame(self, h, df) ==
    LET c == DfCopy(h, df)
        t == c.heap[c.ref]
        all == [columns |-> t.columns,
                rows |-> [i \in 1..Len(t.rows) |->
                            [index |-> t.rows[i].index,
                             cells |-> [x \in Range(t.columns) |->
                                          IF ValEq(t.rows[i].cells[x], self.old_value)
                                          THEN self.new_value
                                          ELSE t.rows[i].cells[x]]]]]
    IN  IF ~HasColumn(t, self.column)
        THEN [heap |-> c.heap, self |-> self,
              ret |-> Raise("Replace failed", "KeyError")]
        ELSE [heap |-> Store(c.heap, c.ref, all), self |-> self, ret |-> Ok(c.ref)]

ReplaceValues_apply(self, h, df) ==
    LET c == DfCopy(h, df)
        t == c.heap[c.ref]
        new == replace(Column(t, self.column), self.old_value, self.new_value)
    IN  IF ~HasColumn(t, self.column)
        THEN [heap |-> c.heap, self |-> self,
              ret |-> Raise("Replace failed", "KeyError")]
        ELSE [heap |-> Store(c.heap, c.ref, SetColumn(t, self.column, new)),
              self |-> self, ret |-> Ok(c.ref)]

(***************************************************************************)
(* MergeColumns                                                            *)
(***************************************************************************)
MergeColumns__init__(columns, new_column_name, separator) ==
    [ok |-> TRUE,
     self |-> [cls |-> "MergeColumns", columns |-> columns,
               new_column_name |-> new_column_name, separator |-> separator]]

\* separator.join(parts)
RECURSIVE join(_, _)
join(separator, parts) ==
    IF parts = <<>> THEN <<>>
    ELSE IF Len(parts) = 1 THEN parts[1]
    ELSE parts[1] \o separator \o join(separator, Tail(parts))

\* df[columns].astype(str).agg(separator.join, axis=1)
Merged(t, columns, separator) ==
    [i \in 1..Len(t.rows) |->
        S(join(separator,
               [j \in 1..Len(columns) |-> str(t.rows[i].cells[columns[j]])]))]

\* On a frame without rows agg(axis=1) hands back the frame itself, not a
\* column, and a frame of several columns cannot be assigned to one column.
AggIsFrame(t, columns) == Len(t.rows) = 0 /\ Len(columns) > 1

MergeColumns_apply(self, h, df) ==
    LET c == DfCopy(h, df)
        t == c.heap[c.ref]
        new == Merged(t, self.columns, self.separator)
    IN  IF \E x \in Range(self.columns) : ~HasColumn(t, x)
        THEN [heap |-> c.heap, self |-> self,
              ret |-> Raise("Merge columns failed", "KeyError")]
        ELSE IF AggIsFrame(t, self.columns)
        THEN [heap |-> c.heap, self |-> self,
              ret |-> Raise("Merge columns failed", "ValueError")]
        ELSE [heap |-> Store(c.heap, c.ref, SetColumn(t, self.new_column_name, new)),
              self |-> self, ret |-> Ok(c.ref)]

(***************************************************************************)
(* NormalizeText                                                           *)
(***************************************************************************)
valid_methods == <<"lower", "upper", "title", "trim", "capitalize">>

NormalizeText__init__(column, method) ==
    IF method \notin Range(valid_methods)
    THEN [ok |-> FALSE, self |-> NoOp]
    ELSE [ok |-> TRUE,
          self |-> [cls |-> "NormalizeText", column |-> column, method |-> method]]

IsUpper(c) == c \in {"A", "B"}
IsLower(c) == c \in {"a", "b"}
IsCased(c) == IsUpper(c) \/ IsLower(c)
ToLower(c) == CASE c = "A" -> "a" [] c = "B" -> "b" [] OTHER -> c
ToUpper(c) == CASE c = "a" -> "A" [] c = "b" -> "B" [] OTHER -> c

\* str.lower, str.upper
lower(s) == [i \in 1..Len(s) |-> ToLower(s[i])]
upper(s) == [i \in 1..Len(s) |-> ToUpper(s[i])]

\* str.title: a cased character is upper after an uncased one, else lower.
title(s) ==
    [i \in 1..Len(s) |->
        IF i > 1 /\ IsCased(s[i - 1]) THEN ToLower(s[i]) ELSE ToUpper(s[i])]

\* str.capitalize: the first character upper, the rest lower.
capitalize(s) ==
    [i \in 1..Len(s) |-> IF i = 1 THEN ToUpper(s[i]) ELSE ToLower(s[i])]

\* str.strip: leading and trailing whitespace removed.
RECURSIVE lstrip(_)
lstrip(s) == IF s # <<>> /\ s[1] = " " THEN lstrip(Tail(s)) ELSE s
RECURSIVE rstrip(_)
rstrip(s) ==
    IF s # <<>> /\ s[Len(s)] = " " THEN rstrip(SubSeq(s, 1, Len(s) - 1)) ELSE s
strip(s) == rstrip(lstrip(s))

\* The if/elif chain over self.method; no branch for any other method.
Normalized(method, s) ==
    CASE method = "lower" -> lower(s)
      [] method = "upper" -> upper(s)
      [] method = "title" -> title(s)
      [] method = "trim" -> strip(s)
      [] method = "capitalize" -> capitalize(s)
      [] OTHER -> s

NormalizeText_apply(self, h, df) ==
    LET c == DfCopy(h, df)
        t == c.heap[c.ref]
        col == Column(t, self.column)
        new == [i \in 1..Len(col) |-> S(Normalized(self.method, str(col[i])))]
    IN  IF ~HasColumn(t, self.column)
        THEN [heap |-> c.heap, self |-> self,
              ret |-> Raise("Text normalization failed", "KeyError")]
        ELSE [heap |-> Store(c.heap, c.ref, SetColumn(t, self.column, new)),
              self |-> self, ret |-> Ok(c.ref)]

(***************************************************************************)
(* ConvertDateFormat                                                       *)
(*                                                                         *)
(* A format is its sequence of directives and literal characters.  Dates   *)
(* are written with four-digit years and two-digit months and days, the    *)
(* only widths the tables of this model hold.                              *)
(***************************************************************************)
Auto == <<"a", "u", "t", "o">>
IsoFormat == <<"%Y", "-", "%m", "-", "%d">>
MonthFirst == <<"%m", "/", "%d", "/", "%Y">>
DayFirst == <<"%d", "/", "%m", "/", "%Y">>

ConvertDateFormat__init__(column, from_format, to_format) ==
    [ok |-> TRUE,
     self |-> [cls |-> "ConvertDateFormat", column |-> column,
               from_format |-> from_format, to_format |-> to_format]]

NoDate == [ok |-> FALSE, Y |-> 0, m |-> 0, d |-> 0]
Epoch == [ok |-> TRUE, Y |-> 1970, m |-> 1, d |-> 1]

\* NaT, the missing timestamp: what pd.to_datetime gives for a missing
\* value and for the empty string, without raising.
NaT == [ok |-> TRUE, Y |-> 0, m |-> 0, d |-> 0]
IsNull(v) == v.k = "nan" \/ (v.k = "str" /\ v.s = <<>>)

RECURSIVE NatOfStr(_)
NatOfStr(s) ==
    IF s = <<>> THEN 0
    ELSE 10 * NatOfStr(SubSeq(s, 1, Len(s) - 1)) + DigitVal(s[Len(s)])

AllDigits(s) == \A i \in 1..Len(s) : IsDigit(s[i])

Width(directive) == IF directive = "%Y" THEN 4 ELSE 2

ValidDate(dt) == dt.m \in 1..12 /\ dt.d \in 1..31

\* Matching text against a format, left to right; every character of the
\* text must be consumed.
RECURSIVE strptime(_, _, _)
strptime(text, format, acc) ==
    IF format = <<>>
    THEN IF text = <<>> /\ ValidDate(acc) THEN acc ELSE NoDate
    ELSE IF format[1] \in {"%Y", "%m", "%d"}
    THEN LET w == Width(format[1])
             head == SubSeq(text, 1, w)
             v == NatOfStr(head)
         IN  IF Len(text) < w \/ ~AllDigits(head) THEN NoDate
             ELSE strptime(SubSeq(text, w + 1, Len(text)), Tail(format),
                           CASE format[1] = "%Y" -> [acc EXCEPT !.Y = v]
                             [] format[1] = "%m" -> [acc EXCEPT !.m = v]
                             [] OTHER -> [acc EXCEPT !.d = v])
    ELSE IF text # <<>> /\ text[1] = format[1]
    THEN strptime(Tail(text), Tail(format), acc)
    ELSE NoDate

Fresh == [ok |-> TRUE, Y |-> 1900, m |-> 1, d |-> 1]

\* pd.to_datetime without a format: integers count from the epoch, text is
\* read as an ISO date or as month/day/year.
ParseAuto(v) ==
    IF v.k = "int" THEN Epoch
    ELSE IF strptime(v.s, IsoFormat, Fresh).ok THEN strptime(v.s, IsoFormat, Fresh)
    ELSE strptime(v.s, MonthFirst, Fresh)

\* pd.to_datetime of one cell under the source-format policy (errors='raise'):
\* the empty string and missing values become NaT under either policy.
to_datetime(v, from_format) ==
    IF IsNull(v) THEN NaT
    ELSE IF from_format = Auto THEN ParseAuto(v)
    ELSE strptime(str(v), from_format, Fresh)

Pad(n, w) ==
    LET digits == StrOfNat(n) IN
    [i \in 1..(w - Len(digits)) |-> "0"] \o digits

RECURSIVE strftime(_, _)
strftime(dt, format) ==
    IF format = <<>> THEN <<>>
    ELSE (CASE format[1] = "%Y" -> Pad(dt.Y, 4)
            [] format[1] = "%m" -> Pad(dt.m, 2)
            [] format[1] = "%d" -> Pad(dt.d, 2)
            [] OTHER -> <<format[1]>>) \o strftime(dt, Tail(format))

ConvertDateFormat_apply(self, h, df) ==
    LET c == DfCopy(h, df)
        t == c.heap[c.ref]
        col == Column(t, self.column)
        parsed == [i \in 1..Len(col) |-> to_datetime(col[i], self.from_format)]
        new == [i \in 1..Len(col) |->
                  IF parsed[i] = NaT THEN NaN
                  ELSE S(strftime(parsed[i], self.to_format))]
    IN  IF ~HasColumn(t, self.column)
        THEN [heap |-> c.heap, self |-> self,
              ret |-> Raise("Date conversion failed", "KeyError")]
        ELSE IF \E i \in 1..Len(col) : ~parsed[i].ok
        THEN [heap |-> c.heap, self |-> self,
              ret |-> Raise("Date conversion failed", "ParseError")]
        ELSE [heap |-> Store(c.heap, c.ref, SetColumn(t, self.column, new)),
              self |-> self, ret |-> Ok(c.ref)]

(***************************************************************************)
(* The caller: loads a table, constructs an operation, applies it to the   *)
(* table, and may apply it again to the table that came back.              *)
(***************************************************************************)
VARIABLES
    heap,     \* the DataFrame objects
    df,       \* the caller's table (an object id; 0 before a table is loaded)
    result,   \* what op.apply(df) returned or raised
    again,    \* what op.apply(result) returned or raised
    op,       \* the operation instance (NoOp when there is none)
    ctor,     \* the instance as its constructor left it
    made,     \* the last constructor call: class, selector argument, outcome
    pre,      \* the heap as it was when the last apply call was made
    arg,      \* the object the last apply call was given (0: no call yet)
    reused    \* the instance was applied to a table loaded earlier

vars == <<heap, df, result, again, op, ctor, made, pre, arg, reused>>

DateText == <<"2", "0", "2", "4", "-", "0", "1", "-", "0", "2">>

\* The rows a loaded table is made of: column a holds ints and text,
\* column b holds text, some of it dates.
Cells ==
    {[a |-> I(1), b |-> S(<<"A", "b">>)],
     [a |-> I(2), b |-> S(DateText)],
     [a |-> S(<<"a">>), b |-> S(DateText)]}

\* pd.DataFrame({...}): rows labelled 0, 1, ... in order.
DataFrame(cells) ==
    [columns |-> <<"a", "b">>,
     rows |-> [i \in 1..Len(cells) |-> [index |-> i - 1, cells |-> cells[i]]]]

\* pd.DataFrame()
EmptyFrame == [columns |-> <<>>, rows |-> <<>>]

Tables ==
    {DataFrame(c) : c \in UNION {[1..n -> Cells] : n \in 0..MaxRows}}
        \cup {EmptyFrame}

\* Constructor arguments.
ColumnArgs == {"a", "b", "z"}
SubsetArgs == {NoneColumns, Columns(<<"b">>), Columns(<<"b", "a">>), Columns(<<"z">>)}
KeepArgs == {"first", "last", "False", "middle"}
FilterArgs ==
    ({"==", "!=", ">", "<", ">=", "<=", "invalid_op"}
        \X {Scalar(I(1)), Scalar(S(<<"a">>))})
    \cup ({"contains"} \X {Scalar(S(<<"b">>)), Scalar(S(<<".">>)), Scalar(I(1))})
    \cup ({"in"} \X {List(<<I(1), S(<<"a">>)>>), List(<<>>)})
ReplaceArgs == {I(1), S(<<"a">>), S(<<"A", "b">>)}
MergeArgs == {<<"a", "b">>, <<"b", "a">>, <<"b", "z">>}
NewColumnArgs == {"Merged", "a"}
SeparatorArgs == {<<" ">>, <<"-">>}
MethodArgs == Range(valid_methods) \cup {"snake"}
FromFormatArgs == {Auto, IsoFormat, DayFirst}
ToFormatArgs == {IsoFormat, DayFirst}

NoCall == [cls |-> "None", selector |-> "", ok |-> FALSE]

Init ==
    /\ heap = <<>>
    /\ df = 0
    /\ result = NoRet
    /\ again = NoRet
    /\ op = NoOp
    /\ ctor = NoOp
    /\ made = NoCall
    /\ pre = <<>>
    /\ arg = 0
    /\ reused = FALSE

\* The fixture / loader hands the caller a table.
Load ==
    \E t \in Tables :
        /\ df = 0 \/ result # NoRet
        /\ heap' = (1 :> t)
        /\ df' = 1
        /\ result' = NoRet
        /\ again' = NoRet
        /\ pre' = heap'
        /\ arg' = 0
        /\ reused' = (reused \/ result # NoRet)
        /\ UNCHANGED <<op, ctor, made>>

\* op = Cls(...): r is what the constructor produced.
Construct(r, cls, selector) ==
    /\ result = NoRet /\ (df = 0 \/ op = NoOp)
    /\ op' = r.self
    /\ ctor' = r.self
    /\ made' = [cls |-> cls, selector |-> selector, ok |-> r.ok]
    /\ result' = NoRet
    /\ again' = NoRet
    /\ heap' = Restrict(heap, {df})
    /\ pre' = heap'
    /\ arg' = 0
    /\ reused' = FALSE
    /\ UNCHANGED df

ConstructRemoveDuplicates ==
    \E columns \in SubsetArgs, keep \in KeepArgs :
        Construct(RemoveDuplicates__init__(columns, keep), "RemoveDuplicates", keep)

ConstructFilterRows ==
    \E column \in ColumnArgs, a \in FilterArgs :
        Construct(FilterRows__init__(column, a[1], a[2]), "FilterRows", a[1])

ConstructReplaceValues ==
    \E column \in ColumnArgs, old_value \in ReplaceArgs, new_value \in ReplaceArgs :
        Construct(ReplaceValues__init__(column, old_value, new_value),
                  "ReplaceValues", "")

ConstructMergeColumns ==
    \E columns \in MergeArgs, name \in NewColumnArgs, separator \in SeparatorArgs :
        Construct(MergeColumns__init__(columns, name, separator), "MergeColumns", "")

ConstructNormalizeText ==
    \E column \in ColumnArgs, method \in MethodArgs :
        Construct(NormalizeText__init__(column, method), "NormalizeText", method)

ConstructConvertDateFormat ==
    \E column \in ColumnArgs, f \in FromFormatArgs, t \in ToFormatArgs :
        Construct(ConvertDateFormat__init__(column, f, t), "ConvertDateFormat", "")

\* The tables the caller can pass to apply: its own table, and the table
\* the first call returned.
Target(second) == IF second THEN result.ref ELSE df

CanCall(second) ==
    /\ op # NoOp
    /\ df # 0
    /\ second => (result.ok /\ again = NoRet)

\* r is what op.apply(Target(second)) did: its heap, the instance, the
\* outcome.  Objects no longer referenced are dropped.
Return(r, second) ==
    /\ op' = r.self
    /\ result' = IF second THEN result ELSE r.ret
    /\ again' = IF second THEN r.ret ELSE NoRet
    /\ heap' = Restrict(r.heap,
                        {df} \cup (IF second THEN {result.ref} ELSE {})
                             \cup (IF r.ret.ok THEN {r.ret.ref} ELSE {}))
    /\ pre' = heap
    /\ arg' = Target(second)
    /\ UNCHANGED <<df, ctor, made, reused>>

ApplyRemoveDuplicates ==
    \E second \in BOOLEAN :
        /\ CanCall(second) /\ op.cls = "RemoveDuplicates"
        /\ Return(RemoveDuplicates_apply(op, heap, Target(second)), second)

ApplyFilterRows ==
    \E second \in BOOLEAN :
        /\ CanCall(second) /\ op.cls = "FilterRows"
        /\ Return(FilterRows_apply(op, heap, Target(second)), second)

ApplyReplaceValues ==
    \E second \in BOOLEAN :
        /\ CanCall(second) /\ op.cls = "ReplaceValues"
        /\ Return(ReplaceValues_apply(op, heap, Target(second)), second)

ApplyMergeColumns ==
    \E second \in BOOLEAN :
        /\ CanCall(second) /\ op.cls = "MergeColumns"
        /\ Return(MergeColumns_apply(op, heap, Target(second)), second)

ApplyNormalizeText ==
    \E second \in BOOLEAN :
        /\ CanCall(second) /\ op.cls = "NormalizeText"
        /\ Return(NormalizeText_apply(op, heap, Target(second)), second)

ApplyConvertDateFormat ==
    \E second \in BOOLEAN :
        /\ CanCall(second) /\ op.cls = "ConvertDateFormat"
        /\ Return(ConvertDateFormat_apply(op, heap, Target(second)), second)

Next ==
    \/ Load
    \/ ConstructRemoveDuplicates
    \/ ConstructFilterRows
    \/ ConstructReplaceValues
    \/ ConstructMergeColumns
    \/ ConstructNormalizeText
    \/ ConstructConvertDateFormat
    \/ ApplyRemoveDuplicates
    \/ ApplyFilterRows
    \/ ApplyReplaceValues
    \/ ApplyMergeColumns
    \/ ApplyNormalizeText
    \/ ApplyConvertDateFormat

Spec == Init /\ [][Next]_vars

\* The same caller over tables whose text column has an empty string in
\* some rows.
BlankCells ==
    {[a |-> I(1), b |-> S(<<"A", "b">>)],
     [a |-> S(<<"a">>), b |-> S(DateText)],
     [a |-> I(2), b |-> S(<<>>)]}

BlankTables ==
    {DataFrame(c) : c \in UNION {[1..n -> BlankCells] : n \in 0..MaxRows}}
        \cup {EmptyFrame}

LoadWithBlanks ==
    \E t \in BlankTables :
        /\ df = 0 \/ result # NoRet
        /\ heap' = (1 :> t)
        /\ df' = 1
        /\ result' = NoRet
        /\ again' = NoRet
        /\ pre' = heap'
        /\ arg' = 0
        /\ reused' = (reused \/ result # NoRet)
        /\ UNCHANGED <<op, ctor, made>>

NextWithBlanks ==
    \/ LoadWithBlanks
    \/ ConstructRemoveDuplicates
    \/ ConstructFilterRows
    \/ ConstructReplaceValues
    \/ ConstructMergeColumns
    \/ ConstructNormalizeText
    \/ ConstructConvertDateFormat
    \/ ApplyRemoveDuplicates
    \/ ApplyFilterRows
    \/ ApplyReplaceValues
    \/ ApplyMergeColumns
    \/ ApplyNormalizeText
    \/ ApplyConvertDateFormat

SpecWithBlanks == Init /\ [][NextWithBlanks]_vars

(***************************************************************************)
(* Properties                                                              *)
(***************************************************************************)
\* The last apply call: its outcome, the table it was given as that table
\* was before the call, and the table it returned.
Called == arg # 0
Last == IF again # NoRet THEN again ELSE result
In == pre[arg]
Out == heap[Last.ref]
CalledOn(cls) == Called /\ op.cls = cls
Returned(cls) == CalledOn(cls) /\ Last.ok

\* The k-th smallest member of a set of row positions.
Kth(R, k) == CHOOSE i \in R : Cardinality({j \in R : j < i}) = k - 1

\* out holds exactly the rows of in at the positions R, whole and in order.
IsRowsAt(out, in, R) ==
    /\ out.columns = in.columns
    /\ Len(out.rows) = Cardinality(R)
    /\ \A k \in 1..Len(out.rows) : out.rows[k] = in.rows[Kth(R, k)]

Positions(t) == 1..Len(t.rows)

\* C1: after apply returns or fails, the table it was given is value-equal
\* to what it was before the call.
C1_InputUnchanged ==
    Called => (arg \in DOMAIN heap /\ heap[arg] = pre[arg])

\* A call that returned a table differing from its input, and a call that
\* failed, both leaving the input as it was.
C1_Witness ==
    /\ CalledOn("ReplaceValues") /\ Last.ok
    /\ Out # In
    /\ heap[arg] = In

\* C2: FilterRows / NormalizeText construction succeeds exactly when the
\* operator / method is in the allowed set; a failed construction yields
\* no instance, and needs no table.
C2_ConstructorValidates ==
    /\ made.cls = "FilterRows" =>
         /\ made.ok <=> made.selector \in
                {"==", "!=", ">", "<", ">=", "<=", "contains", "in"}
         /\ made.ok => (op.cls = "FilterRows" /\ op.operator = made.selector)
         /\ ~made.ok => op = NoOp
    /\ made.cls = "NormalizeText" =>
         /\ made.ok <=> made.selector \in
                {"lower", "upper", "title", "trim", "capitalize"}
         /\ made.ok => (op.cls = "NormalizeText" /\ op.method = made.selector)
         /\ ~made.ok => op = NoOp

\* An invalid operator was rejected before any table was loaded.
C2_Witness ==
    /\ made.cls = "FilterRows" /\ made.selector = "invalid_op"
    /\ ~made.ok /\ op = NoOp
    /\ df = 0 /\ heap = <<>>

\* The key of a row under RemoveDuplicates' columns (all columns if None).
KeyColumns(self, t) ==
    IF self.columns.isNone THEN Range(t.columns) ELSE Range(self.columns.names)
GroupKey(self, t, i) == [c \in KeyColumns(self, t) |-> t.rows[i].cells[c]]
Group(self, t, i) == {j \in Positions(t) : GroupKey(self, t, j) = GroupKey(self, t, i)}
Groups(self, t) == {Group(self, t, i) : i \in Positions(t)}

\* RemoveDuplicates is configured within its domain for table t: the key
\* columns exist and the keep policy is first, last or drop-all.
DedupApplies(self, t) ==
    \/ Len(t.rows) = 0
    \/ /\ KeyColumns(self, t) \subseteq Range(t.columns)
       /\ self.keep \in {"first", "last", "False"}

\* C3: the output has one row per key group under first/last, one row per
\* group of size 1 under drop-all; an empty input gives zero rows.
C3_DedupCardinality ==
    (CalledOn("RemoveDuplicates") /\ DedupApplies(ctor, In)) =>
        /\ Last.ok
        /\ Len(Out.rows) =
             IF ctor.keep = "False" /\ Len(In.rows) > 0
             THEN Cardinality({g \in Groups(ctor, In) : Cardinality(g) = 1})
             ELSE Cardinality(Groups(ctor, In))

\* Drop-all on three rows holding a group of two and a group of one.
C3_Witness ==
    /\ Returned("RemoveDuplicates") /\ ctor.keep = "False"
    /\ Len(In.rows) = 3 /\ Len(Out.rows) = 1
    /\ Cardinality(Groups(ctor, In)) = 2

\* p occurs in s as a run of consecutive characters.
IsSubstring(p, s) ==
    \E i \in 0..(Len(s) - Len(p)) : SubSeq(s, i + 1, i + Len(p)) = p

\* The row test as the operators are described: equality, ordering,
\* case-sensitive substring of the cell's text, membership.
Satisfies(operator, cell, value) ==
    LET v == value.items[1] IN
    CASE operator = "==" -> cell = v
      [] operator = "!=" -> cell # v
      [] operator = ">"  -> ValLess(v, cell)
      [] operator = "<"  -> ValLess(cell, v)
      [] operator = ">=" -> cell = v \/ ValLess(v, cell)
      [] operator = "<=" -> cell = v \/ ValLess(cell, v)
      [] operator = "contains" -> IsSubstring(str(v), str(cell))
      [] OTHER -> \E j \in 1..Len(value.items) : value.items[j] = cell

\* C4: FilterRows.apply returns exactly the rows whose cell in the target
\* column satisfies the operator (contains: substring), whole and in order.
C4_FilterExact ==
    Returned("FilterRows") =>
        IsRowsAt(Out, In,
                 {i \in Positions(In) :
                    Satisfies(ctor.operator, In.rows[i].cells[ctor.column], ctor.value)})

\* What does hold of FilterRows.apply: for the seven operators other than
\* contains the rows returned are exactly the satisfying rows.
FilterExactButContains ==
    (Returned("FilterRows") /\ ctor.operator # "contains") =>
        IsRowsAt(Out, In,
                 {i \in Positions(In) :
                    Satisfies(ctor.operator, In.rows[i].cells[ctor.column], ctor.value)})

NoCellEquals(t, column, v) == \A i \in Positions(t) : t.rows[i].cells[column] # v

\* C5 as stated: a second ReplaceValues.apply changes nothing, and after
\* the first no cell of the target column equals old_value.
C5_ReplaceIdempotentNoOld ==
    /\ (CalledOn("ReplaceValues") /\ result.ok) =>
          NoCellEquals(heap[result.ref], ctor.column, ctor.old_value)
    /\ (CalledOn("ReplaceValues") /\ again # NoRet) =>
          (again.ok /\ heap[again.ref] = heap[result.ref])

\* C5 amended: a second ReplaceValues.apply changes nothing, and after the
\* first no cell of the target column equals old_value unless new_value is
\* old_value itself.
C5_ReplaceIdempotent ==
    /\ (CalledOn("ReplaceValues") /\ result.ok /\ ctor.new_value # ctor.old_value) =>
          NoCellEquals(heap[result.ref], ctor.column, ctor.old_value)
    /\ (CalledOn("ReplaceValues") /\ again # NoRet) =>
          (again.ok /\ heap[again.ref] = heap[result.ref])

\* Applied twice to a table in which the first pass replaced two cells.
C5_Witness ==
    /\ CalledOn("ReplaceValues") /\ again.ok
    /\ ctor.new_value # ctor.old_value
    /\ Cardinality({i \in Positions(heap[df]) :
                      heap[df].rows[i].cells[ctor.column] = ctor.old_value}) >= 2
    /\ heap[again.ref] = heap[result.ref]

\* C6: ReplaceValues.apply keeps rows and columns, puts new_value in the
\* target cells equal to old_value and leaves every other cell alone; it
\* succeeds whenever the column exists, also when nothing matches.
C6_ReplaceExact ==
    (CalledOn("ReplaceValues") /\ ctor.column \in Range(In.columns)) =>
        /\ Last.ok
        /\ Out.columns = In.columns
        /\ Len(Out.rows) = Len(In.rows)
        /\ \A i \in Positions(In) :
              /\ Out.rows[i].index = In.rows[i].index
              /\ \A c \in Range(In.columns) :
                    Out.rows[i].cells[c] =
                        IF c = ctor.column /\ In.rows[i].cells[c] = ctor.old_value
                        THEN ctor.new_value
                        ELSE In.rows[i].cells[c]
        /\ NoCellEquals(In, ctor.column, ctor.old_value) => Out = In

\* A table with a matching and a non-matching cell in the target column.
C6_Witness ==
    /\ Returned("ReplaceValues")
    /\ \E i, j \in Positions(In) :
          /\ In.rows[i].cells[ctor.column] = ctor.old_value
          /\ In.rows[j].cells[ctor.column] # ctor.old_value
          /\ Out.rows[i].cells[ctor.column] = ctor.new_value
    /\ ctor.new_value # ctor.old_value

\* The text MergeColumns writes for row i of t.
JoinedText(self, t, i) ==
    S(join(self.separator,
           [j \in 1..Len(self.columns) |-> str(t.rows[i].cells[self.columns[j]])]))

MergeShape(self, in, out) ==
    /\ Range(out.columns) = Range(in.columns) \cup {self.new_column_name}
    /\ Len(out.rows) = Len(in.rows)
    /\ \A i \in Positions(in) :
          /\ out.rows[i].index = in.rows[i].index
          /\ out.rows[i].cells[self.new_column_name] = JoinedText(self, in, i)
          /\ \A c \in Range(in.columns) \ {self.new_column_name} :
                out.rows[i].cells[c] = in.rows[i].cells[c]

\* C7 as stated: every source column of the output equals the input's, and
\* only the destination column differs, holding the joined text.
C7_MergeSourcesKept ==
    (CalledOn("MergeColumns") /\ Range(ctor.columns) \subseteq Range(In.columns)) =>
        /\ Last.ok
        /\ MergeShape(ctor, In, Out)
        /\ \A c \in Range(ctor.columns) : Column(Out, c) = Column(In, c)

\* What does hold of MergeColumns.apply on a table with rows: the source
\* columns other than the destination are kept and the destination holds
\* the joined text.
MergeFrameWithRows ==
    (/\ CalledOn("MergeColumns")
     /\ Range(ctor.columns) \subseteq Range(In.columns)
     /\ Len(In.rows) > 0) =>
        /\ Last.ok
        /\ MergeShape(ctor, In, Out)
        /\ \A c \in Range(ctor.columns) \ {ctor.new_column_name} :
              Column(Out, c) = Column(In, c)

\* C8: an out-of-set keep policy, operator or method never gets past the
\* constructor, so no apply fails or passes a table through because of one.
C8_SelectorsValidated ==
    /\ op.cls = "RemoveDuplicates" => op.keep \in {"first", "last", "False"}
    /\ op.cls = "FilterRows" => op.operator \in Range(valid_operators)
    /\ op.cls = "NormalizeText" => op.method \in Range(valid_methods)
    /\ Called => Last.cause # "keep must be either first, last or False"

\* The positions RemoveDuplicates is to retain.
Retained(self, t) ==
    {i \in Positions(t) :
        LET g == Group(self, t, i) IN
        CASE self.keep = "first" -> \A j \in g : i <= j
          [] self.keep = "last" -> \A j \in g : j <= i
          [] OTHER -> g = {i}}

\* C9: RemoveDuplicates.apply retains the earliest / latest row of each
\* group, or no row of a group of several under drop-all, in input order
\* and with the rows' index labels.
C9_DedupRetains ==
    (CalledOn("RemoveDuplicates") /\ DedupApplies(ctor, In)) =>
        /\ Last.ok
        /\ IsRowsAt(Out, In, Retained(ctor, In))

\* keep='last' on rows x, y, x: rows 1 and 2 survive, in that order.
C9_Witness ==
    /\ Returned("RemoveDuplicates") /\ ctor.keep = "last"
    /\ Len(In.rows) = 3 /\ In.rows[1].cells = In.rows[3].cells
    /\ In.rows[1].cells # In.rows[2].cells
    /\ Len(Out.rows) = 2
    /\ Out.rows[1].index = 1 /\ Out.rows[2].index = 2

\* self.apply(df) for an instance of any class.
apply(self, h, d) ==
    CASE self.cls = "RemoveDuplicates" -> RemoveDuplicates_apply(self, h, d)
      [] self.cls = "FilterRows" -> FilterRows_apply(self, h, d)
      [] self.cls = "ReplaceValues" -> ReplaceValues_apply(self, h, d)
      [] self.cls = "MergeColumns" -> MergeColumns_apply(self, h, d)
      [] self.cls = "NormalizeText" -> NormalizeText_apply(self, h, d)
      [] OTHER -> ConvertDateFormat_apply(self, h, d)

\* C10: apply leaves the instance as its constructor made it, and what a
\* call returns is what the instance as constructed gives for that table,
\* whatever it was applied to before.
C10_InstanceUntouched ==
    /\ op = ctor
    /\ Called =>
          LET r == apply(ctor, pre, arg) IN
          /\ Last.ok = r.ret.ok
          /\ Last.msg = r.ret.msg
          /\ Last.ok => Out = r.heap[r.ret.ref]

\* An instance applied to a second table after an earlier one, and then to
\* the table it returned.
C10_Witness ==
    /\ reused /\ again.ok
    /\ op.cls = "FilterRows" /\ op.operator = "contains"
    /\ op = ctor
    /\ Len(Out.rows) >= 1

\* The error each operation's apply raises.
FailureMessage(cls) ==
    CASE cls = "RemoveDuplicates" -> "Remove duplicates failed"
      [] cls = "FilterRows" -> "Filter failed"
      [] cls = "ReplaceValues" -> "Replace failed"
      [] cls = "MergeColumns" -> "Merge columns failed"
      [] cls = "NormalizeText" -> "Text normalization failed"
      [] cls = "ConvertDateFormat" -> "Date conversion failed"

\* The cell is no date under the source-format policy: auto takes numbers
\* and text in a date form it recognises, a pattern takes text matching it.
CannotParse(v, from_format) ==
    IF from_format = Auto
    THEN /\ v.k # "int"
         /\ ~strptime(v.s, IsoFormat, Fresh).ok
         /\ ~strptime(v.s, MonthFirst, Fresh).ok
    ELSE ~strptime(str(v), from_format, Fresh).ok

AbsentColumn(self, t) ==
    \/ /\ self.cls \in {"FilterRows", "ReplaceValues", "NormalizeText",
                        "ConvertDateFormat"}
       /\ ~HasColumn(t, self.column)
    \/ /\ self.cls = "MergeColumns"
       /\ \E i \in 1..Len(self.columns) : ~HasColumn(t, self.columns[i])

NotOrderComparable(self, t) ==
    /\ self.cls = "FilterRows"
    /\ self.operator \in Ordering
    /\ HasColumn(t, self.column)
    /\ \E i \in Positions(t) :
           ~Comparable(Column(t, self.column)[i], self.value.items[1])

Unparseable(self, t) ==
    /\ self.cls = "ConvertDateFormat"
    /\ HasColumn(t, self.column)
    /\ \E i \in Positions(t) :
           CannotParse(Column(t, self.column)[i], self.from_format)

BlankDate(self, t) ==
    /\ self.cls = "ConvertDateFormat"
    /\ HasColumn(t, self.column)
    /\ \E i \in Positions(t) : IsNull(Column(t, self.column)[i])

FailedWhole ==
    /\ ~Last.ok
    /\ Last.ref = 0
    /\ Last.msg = FailureMessage(op.cls)

\* C11: when apply cannot process the table as configured (the target
\* column or a merge source column is absent, an ordering operator meets a
\* cell not order-comparable with the comparison value, or a cell of the
\* date column cannot be parsed under the source-format policy), the call
\* fails with the operation's error and returns no table.
C11_FailsWhole ==
    (Called /\ (AbsentColumn(op, In) \/ NotOrderComparable(op, In)
                  \/ Unparseable(op, In)))
        => FailedWhole

\* What does hold: every such call fails whole, except a date conversion
\* over a column with a blank or missing cell.
FailsWholeUnlessBlank ==
    (Called /\ ~BlankDate(op, In)
            /\ (AbsentColumn(op, In) \/ NotOrderComparable(op, In)
                  \/ Unparseable(op, In)))
        => FailedWhole

\* The call C11 is wrong about: a date conversion over a column with a
\* blank cell returns a table in which that cell holds no date text.
BlankDateReturned ==
    /\ Called /\ BlankDate(op, In) /\ Unparseable(op, In)
    /\ Last.ok
    /\ \E i \in Positions(Out) : Column(Out, op.column)[i] = NaN

====
